---------------------------- MODULE Spec2Model ----------------------------
(***************************************************************************)
(* The worker-pool scheduler (package scheduler), the concurrent hash set  *)
(* and the crawl orchestrator (package crawler) of monzo-techtest.         *)
(*                                                                         *)
(* Every goroutine is a process with a program counter: the orchestrator   *)
(* (Crawler.Crawl / Crawler.run), the dispatch loop (Scheduler.run), one   *)
(* worker goroutine per worker (worker.start, running Crawler.handler),    *)
(* and one sender goroutine per worker spawned by Scheduler.Stop.          *)
(* Unsynchronised accesses (Scheduler.enqueue, the dequeue's slice         *)
(* re-assignment against it, the append to Crawler.result) are split into  *)
(* their read and their write, so that every interleaving the data race    *)
(* allows is a behaviour of the model.                                      *)
(***************************************************************************)
EXTENDS Naturals, Sequences, FiniteSets, TLC

VARIABLES
    opts,          \* CrawlerOptions / SchedulerOptions: MaxWorkers, Interactive
    handler,       \* Scheduler.handler is bound (not nil)
    graph,         \* the fetcher: URL -> the links ParseLinks returns for it
    failing,       \* the fetcher: URLs whose ParseLinks returns an error
    inputQueue,    \* Scheduler.inputQueue
    quit,          \* Scheduler.quit
    workerPool,    \* Scheduler.workerPool (buffered channel of workers)
    WorkerState,   \* Scheduler.WorkerState (buffered channel of tuples)
    tasksClosed,   \* worker.cha.tasks has been closed
    wpc,           \* each worker goroutine's position
    wtask,         \* the task a worker received
    wlinks,        \* handler: output.Links
    nonVisited,    \* handler: nonVisitedLinks
    linkIdx,       \* handler: position of Dispatch's range loop
    enqRead,       \* enqueue: the s.inputQueue value append was given
    resRead,       \* handler: the c.result value append was given
    rpc,           \* the dispatch loop's position
    rt,            \* Scheduler.run / dequeue: t
    rq,            \* dequeue: the s.inputQueue value that is re-sliced
    rworker,       \* Scheduler.run: worker
    stopper,       \* Scheduler.Stop: each sender goroutine's position
    mpc,           \* the orchestrator's position
    menq,          \* Crawl's Dispatch: the s.inputQueue value append was given
    visitedSize,   \* Crawler.run: visitedSize
    cquit,         \* Crawler.quit (buffered channel of signals, capacity 1)
    signals,       \* number of external signals delivered so far
    cache,         \* Crawler.cache.data   (Discovered Set)
    visited,       \* Crawler.visited.data (Completed Set)
    result,        \* Crawler.result
    output,        \* what Crawler.done has written: the records it read
    dispatched,    \* history: per task, enqueue calls that have returned
    popped,        \* history: per task, dequeue calls that have returned
    handled,       \* history: per task, handler invocations begun
    fetched,       \* history: per task, handler invocations that fetched it
    sawQuiescence, \* history: the periodic check read visitedSize >= cacheSize
    hsLock,        \* hashSet.lock of visited: a writer, or a number of readers
    cpc,           \* set callers: each caller's position
    cop,           \* set callers: the call each caller makes
    cmap,          \* set callers: the s.data a writer's map access works on
    cret,          \* set callers: what has returned
    added,         \* history: per caller, the elements whose add or addSlice
                   \* had returned when the caller made its call
    returned,      \* history: the elements whose add or addSlice has returned
    popts,         \* Parser.opts (ParserOptions)
    baseUrl,       \* filterLinks: baseUrl
    rawLinks,      \* filterLinks: links
    filteredLinks, \* filterLinks: filteredLinks
    pidx,          \* filterLinks: position of the range loop
    ppc            \* filterLinks: the call's position

schedVars   == <<inputQueue, quit, workerPool, WorkerState, tasksClosed>>
workerVars  == <<wpc, wtask, wlinks, nonVisited, linkIdx, enqRead, resRead>>
runVars     == <<rpc, rt, rq, rworker>>
mainVars    == <<mpc, menq, visitedSize, cquit, signals>>
crawlVars   == <<cache, visited, result, output>>
histVars    == <<dispatched, popped, handled, fetched, sawQuiescence>>
parserVars  == <<popts, baseUrl, rawLinks, filteredLinks, pidx, ppc>>
\* the configuration and the collaborators of the crawl (fetcher, parser),
\* which no goroutine of the crawl changes
confVars    == <<opts, handler, graph, failing, parserVars>>
clientVars  == <<hsLock, cpc, cop, cmap, cret, added, returned>>

vars == <<confVars, schedVars, workerVars, runVars, stopper, mainVars,
          crawlVars, histVars, clientVars>>

-----------------------------------------------------------------------------
(* Bounds of the model. *)

\* at most this many URLs have a failing fetch in one crawl
MaxFailures == 1
\* at most this many links are found in one page given to filterLinks
MaxLinks == 2
\* at most this many external signals are delivered to the orchestrator
MaxSignals == 1
\* number of concurrent callers of the hash set in SetSpec
MaxClients == 3

(* Program constants. *)

\* the default of the -workers flag
DefaultWorkers == 2
\* make(chan os.Signal, 1)
QuitCap == 1

-----------------------------------------------------------------------------
(* The fetcher collaborator: a finite site. *)

URLs == {"a", "x", "y"}
Seed == "a"
NoTask == "-"

\* seed a -> {x, y}, x -> {}, y -> {x}
ScenarioGraph == [u \in URLs |->
    CASE u = "a" -> <<"x", "y">>
      [] u = "x" -> <<>>
      [] u = "y" -> <<"x">>]

Range(s) == {s[i] : i \in DOMAIN s}

-----------------------------------------------------------------------------
(* crawler/hash_set.go: the operations on hashSet.data, each executed by   *)
(* its caller while it holds hashSet.lock.                                 *)

add(data, t) == IF t \in data THEN data ELSE data \cup {t}

RECURSIVE addSlice(_, _)
addSlice(data, a) ==
    IF a = <<>> THEN data
    ELSE addSlice(IF Head(a) \in data THEN data ELSE data \cup {Head(a)}, Tail(a))

has(data, element) == element \in data

size(data) == Cardinality(data)

\* the keys in the order the map's iteration yields them
RECURSIVE slice(_)
slice(data) ==
    IF data = {} THEN <<>>
    ELSE LET k == CHOOSE k \in data : TRUE
         IN <<k>> \o slice(data \ {k})

\* Contains that answers the opposite.
ContainsInverted(s, e) == ~\E i \in DOMAIN s : s[i] = e

\* slices.Contains
Contains(s, e) == \E i \in DOMAIN s : s[i] = e

\* Crawler.handler: the links that are not in the snapshot of visited
RECURSIVE NonVisitedLinks(_, _)
NonVisitedLinks(links, snapshot) ==
    IF links = <<>> THEN <<>>
    ELSE IF Contains(snapshot, Head(links))
         THEN NonVisitedLinks(Tail(links), snapshot)
         ELSE <<Head(links)>> \o NonVisitedLinks(Tail(links), snapshot)

\* the crawlerResult appended for a successful fetch
Record(input, links) == [URL |-> input, Links |-> links, Count |-> Len(links)]

-----------------------------------------------------------------------------
Workers == 0 .. (opts.MaxWorkers - 1)

Zero == [u \in URLs |-> 0]

\* The process is alive: no goroutine has panicked, the orchestrator has
\* neither called os.Exit nor returned from Crawl.
Alive == rpc # "panic" /\ mpc \notin {"exit", "returned", "panic"}

Unlocked == [writer |-> FALSE, readers |-> 0]

\* no call of filterLinks is made (ParseLinks is the fetcher above)
NoParser ==
    /\ popts = <<>>
    /\ baseUrl = <<>>
    /\ rawLinks = <<>>
    /\ filteredLinks = <<>>
    /\ pidx = 0
    /\ ppc = "idle"

\* no goroutine but the crawl's uses the hash set
NoCallers ==
    /\ hsLock = Unlocked
    /\ cpc = <<>>
    /\ cop = <<>>
    /\ cmap = <<>>
    /\ cret = <<>>
    /\ added = <<>>
    /\ returned = {}

\* Crawler.done has not run
NoOutput == [written |-> FALSE, records |-> <<>>]

InitCrawl(o, g, f) ==
    /\ opts = o
    /\ graph = g
    /\ failing = f
    /\ inputQueue = <<>>
    /\ quit = FALSE
    /\ workerPool = <<>>
    /\ WorkerState = <<>>
    /\ tasksClosed = [w \in 0 .. (o.MaxWorkers - 1) |-> FALSE]
    /\ wpc = [w \in 0 .. (o.MaxWorkers - 1) |-> "new"]
    /\ wtask = [w \in 0 .. (o.MaxWorkers - 1) |-> NoTask]
    /\ wlinks = [w \in 0 .. (o.MaxWorkers - 1) |-> <<>>]
    /\ nonVisited = [w \in 0 .. (o.MaxWorkers - 1) |-> <<>>]
    /\ linkIdx = [w \in 0 .. (o.MaxWorkers - 1) |-> 0]
    /\ enqRead = [w \in 0 .. (o.MaxWorkers - 1) |-> <<>>]
    /\ resRead = [w \in 0 .. (o.MaxWorkers - 1) |-> <<>>]
    /\ rpc = "new"
    /\ rt = NoTask
    /\ rq = <<>>
    /\ rworker = 0
    /\ stopper = [w \in 0 .. (o.MaxWorkers - 1) |-> "new"]
    /\ mpc = "Crawl"
    /\ menq = <<>>
    /\ visitedSize = 0
    /\ cquit = <<>>
    /\ signals = 0
    /\ cache = {}
    /\ visited = {}
    /\ result = <<>>
    /\ output = NoOutput
    /\ dispatched = Zero
    /\ popped = Zero
    /\ handled = Zero
    /\ fetched = Zero
    /\ sawQuiescence = FALSE

-----------------------------------------------------------------------------
(* Crawler.Crawl *)

\* Start without the check of s.handler.
StartUnchecked ==
    /\ Alive
    /\ mpc = "Crawl"
    /\ mpc' = "cacheAdd"
    /\ wpc' = [w \in Workers |-> "pool"]
    /\ rpc' = "check"
    /\ UNCHANGED <<confVars, schedVars, wtask, wlinks, nonVisited, linkIdx,
                   enqRead, resRead, rt, rq, rworker, stopper, menq,
                   visitedSize, cquit, signals, crawlVars, histVars, clientVars>>

\* c.scheduler.Start(): panics when no handler is bound; else every worker
\* goroutine and the dispatch loop start
Start ==
    /\ Alive
    /\ mpc = "Crawl"
    /\ IF handler
       THEN /\ mpc' = "cacheAdd"
            /\ wpc' = [w \in Workers |-> "pool"]
            /\ rpc' = "check"
       ELSE /\ mpc' = "panic"
            /\ UNCHANGED <<wpc, rpc>>
    /\ UNCHANGED <<confVars, schedVars, wtask, wlinks, nonVisited, linkIdx,
                   enqRead, resRead, rt, rq, rworker, stopper, menq,
                   visitedSize, cquit, signals, crawlVars, histVars, clientVars>>

\* CrawlCacheAdd that leaves the seed out of the Discovered Set.
CrawlCacheAddOmitted ==
    /\ Alive
    /\ mpc = "cacheAdd"
    /\ mpc' = "enqRead"
    /\ UNCHANGED <<confVars, schedVars, workerVars, runVars, stopper, menq,
                   visitedSize, cquit, signals, crawlVars, histVars,
                   clientVars>>

\* c.cache.add(input)
CrawlCacheAdd ==
    /\ Alive
    /\ mpc = "cacheAdd"
    /\ cache' = add(cache, Seed)
    /\ mpc' = "enqRead"
    /\ UNCHANGED <<confVars, schedVars, workerVars, runVars, stopper, menq,
                   visitedSize, cquit, signals, visited, result, output,
                   histVars,
                   clientVars>>

\* c.scheduler.Dispatch([]string{input}): enqueue reads s.inputQueue
CrawlEnqueueRead ==
    /\ Alive
    /\ mpc = "enqRead"
    /\ menq' = inputQueue
    /\ mpc' = "enqWrite"
    /\ UNCHANGED <<confVars, schedVars, workerVars, runVars, stopper,
                   visitedSize, cquit, signals, crawlVars, histVars, clientVars>>

\* ... and stores append's result
CrawlEnqueueWrite ==
    /\ Alive
    /\ mpc = "enqWrite"
    /\ inputQueue' = Append(menq, Seed)
    /\ dispatched' = [dispatched EXCEPT ![Seed] = @ + 1]
    /\ menq' = <<>>
    /\ mpc' = "loop"
    /\ UNCHANGED <<confVars, quit, workerPool, WorkerState, tasksClosed,
                   workerVars, runVars, stopper, visitedSize, cquit, signals,
                   crawlVars, popped, handled, fetched, sawQuiescence,
                   clientVars>>

-----------------------------------------------------------------------------
(* worker.start: the worker goroutine *)

\* the worker's position and the locals of the handler it runs
Worker(w, pc, task, links, nv, idx, enq, res) ==
    /\ wpc' = [wpc EXCEPT ![w] = pc]
    /\ wtask' = [wtask EXCEPT ![w] = task]
    /\ wlinks' = [wlinks EXCEPT ![w] = links]
    /\ nonVisited' = [nonVisited EXCEPT ![w] = nv]
    /\ linkIdx' = [linkIdx EXCEPT ![w] = idx]
    /\ enqRead' = [enqRead EXCEPT ![w] = enq]
    /\ resRead' = [resRead EXCEPT ![w] = res]

\* w.handler(task) returns: the worker goes round its loop
HandlerReturn(w) == Worker(w, "pool", NoTask, <<>>, <<>>, 0, <<>>, <<>>)

\* w.cha.pool <- &w
WorkerPool(w) ==
    /\ Alive
    /\ wpc[w] = "pool"
    /\ Len(workerPool) < opts.MaxWorkers
    /\ workerPool' = Append(workerPool, w)
    /\ wpc' = [wpc EXCEPT ![w] = "select"]
    /\ UNCHANGED <<confVars, inputQueue, quit, WorkerState, tasksClosed, wtask,
                   wlinks, nonVisited, linkIdx, enqRead, resRead, runVars,
                   stopper, mainVars, crawlVars, histVars, clientVars>>

\* The position of a worker that received a task: it reports its state
\* first when reportState is set.
AfterReceive == IF opts.Interactive THEN "report" ELSE "has"

\* Handoff in which any worker waiting in its select receives the task,
\* whether or not the dispatch loop took it from the pool.
HandoffAny(w) ==
    /\ Alive
    /\ rpc = "send"
    /\ wpc[w] = "select"
    /\ ~tasksClosed[w]
    /\ Worker(w, AfterReceive, rt, <<>>, <<>>, 0, <<>>, <<>>)
    /\ handled' = [handled EXCEPT ![rt] = @ + 1]
    /\ rpc' = "check"
    /\ rt' = NoTask
    /\ UNCHANGED <<confVars, schedVars, rq, rworker, stopper, mainVars,
                   crawlVars, dispatched, popped, fetched, sawQuiescence,
                   clientVars>>

\* case task := <-w.cha.tasks, together with the dispatch loop's
\* worker.cha.tasks <- t (the channel is unbuffered)
Handoff(w) ==
    /\ Alive
    /\ rpc = "send"
    /\ rworker = w
    /\ wpc[w] = "select"
    /\ ~tasksClosed[w]
    /\ Worker(w, AfterReceive, rt, <<>>, <<>>, 0, <<>>, <<>>)
    /\ handled' = [handled EXCEPT ![rt] = @ + 1]
    /\ rpc' = "check"
    /\ rt' = NoTask
    /\ UNCHANGED <<confVars, schedVars, rq, rworker, stopper, mainVars,
                   crawlVars, dispatched, popped, fetched, sawQuiescence,
                   clientVars>>

\* w.cha.state <- tuple{w.id, task}
WorkerReport(w) ==
    /\ Alive
    /\ wpc[w] = "report"
    /\ Len(WorkerState) < opts.MaxWorkers
    /\ WorkerState' = Append(WorkerState, <<w, wtask[w]>>)
    /\ wpc' = [wpc EXCEPT ![w] = "has"]
    /\ UNCHANGED <<confVars, inputQueue, quit, workerPool, tasksClosed, wtask,
                   wlinks, nonVisited, linkIdx, enqRead, resRead, runVars,
                   stopper, mainVars, crawlVars, histVars, clientVars>>

\* WorkerQuit with a buffered quit channel: the sender does not wait for
\* the worker to receive.
WorkerQuitBuffered(w) ==
    /\ Alive
    /\ stopper[w] = "send"
    /\ stopper' = [stopper EXCEPT ![w] = "done"]
    /\ UNCHANGED <<confVars, schedVars, workerVars, runVars, mainVars,
                   crawlVars, histVars, clientVars>>

\* case <-w.cha.quit, together with the w.cha.quit <- true of the
\* goroutine Stop spawned for this worker (the channel is unbuffered)
WorkerQuit(w) ==
    /\ Alive
    /\ stopper[w] = "send"
    /\ wpc[w] = "select"
    /\ stopper' = [stopper EXCEPT ![w] = "done"]
    /\ wpc' = [wpc EXCEPT ![w] = "quit"]
    /\ UNCHANGED <<confVars, schedVars, wtask, wlinks, nonVisited, linkIdx,
                   enqRead, resRead, runVars, mainVars, crawlVars, histVars,
                   clientVars>>

\* close(w.cha.tasks); return
WorkerClose(w) ==
    /\ Alive
    /\ wpc[w] = "quit"
    /\ tasksClosed' = [tasksClosed EXCEPT ![w] = TRUE]
    /\ wpc' = [wpc EXCEPT ![w] = "done"]
    /\ UNCHANGED <<confVars, inputQueue, quit, workerPool, WorkerState, wtask,
                   wlinks, nonVisited, linkIdx, enqRead, resRead, runVars,
                   stopper, mainVars, crawlVars, histVars, clientVars>>

-----------------------------------------------------------------------------
(* Crawler.handler, run by worker w for wtask[w] *)

\* if c.visited.has(input) { return }
HandlerHas(w) ==
    /\ Alive
    /\ wpc[w] = "has"
    /\ IF has(visited, wtask[w])
       THEN HandlerReturn(w)
       ELSE Worker(w, "fetch", wtask[w], <<>>, <<>>, 0, <<>>, <<>>)
    /\ UNCHANGED <<confVars, schedVars, runVars, stopper, mainVars, crawlVars,
                   histVars, clientVars>>

\* output, err := c.parser.ParseLinks(input); c.visited.add(input);
\* if err != nil { return }
HandlerFetch(w) ==
    /\ Alive
    /\ wpc[w] = "fetch"
    /\ visited' = add(visited, wtask[w])
    /\ fetched' = [fetched EXCEPT ![wtask[w]] = @ + 1]
    /\ IF wtask[w] \in failing
       THEN HandlerReturn(w)
       ELSE Worker(w, "appendRead", wtask[w], graph[wtask[w]], <<>>, 0, <<>>, <<>>)
    /\ UNCHANGED <<confVars, schedVars, runVars, stopper, mainVars, cache,
                   result, output, dispatched, popped, handled, sawQuiescence,
                   clientVars>>

\* c.result = append(c.result, crawlerResult{...}): append is given c.result
HandlerAppendRead(w) ==
    /\ Alive
    /\ wpc[w] = "appendRead"
    /\ Worker(w, "appendWrite", wtask[w], wlinks[w], <<>>, 0, <<>>, result)
    /\ UNCHANGED <<confVars, schedVars, runVars, stopper, mainVars, crawlVars,
                   histVars, clientVars>>

\* ... and its result is stored in c.result
HandlerAppendWrite(w) ==
    /\ Alive
    /\ wpc[w] = "appendWrite"
    /\ result' = Append(resRead[w], Record(wtask[w], wlinks[w]))
    /\ Worker(w, "snapshot", wtask[w], wlinks[w], <<>>, 0, <<>>, <<>>)
    /\ UNCHANGED <<confVars, schedVars, runVars, stopper, mainVars, cache,
                   visited, output, histVars, clientVars>>

\* visited := c.visited.slice() and the loop that fills nonVisitedLinks
HandlerSnapshot(w) ==
    /\ Alive
    /\ wpc[w] = "snapshot"
    /\ Worker(w, "addSlice", wtask[w], wlinks[w],
              NonVisitedLinks(wlinks[w], slice(visited)), 0, <<>>, <<>>)
    /\ UNCHANGED <<confVars, schedVars, runVars, stopper, mainVars, crawlVars,
                   histVars, clientVars>>

\* the links Crawler.handler hands to c.scheduler.Dispatch
DispatchedLinks(links, nv) == links

\* HandlerAddSlice that inserts nothing into the Discovered Set.
HandlerAddSliceOmitted(w) ==
    /\ Alive
    /\ wpc[w] = "addSlice"
    /\ LET tasks == DispatchedLinks(wlinks[w], nonVisited[w])
       IN IF tasks = <<>>
          THEN HandlerReturn(w)
          ELSE Worker(w, "enqRead", wtask[w], tasks, nonVisited[w], 1, <<>>, <<>>)
    /\ UNCHANGED <<confVars, schedVars, runVars, stopper, mainVars, crawlVars,
                   histVars, clientVars>>

\* c.cache.addSlice(nonVisitedLinks), then c.scheduler.Dispatch(output.Links)
\* begins (an empty range returns at once)
HandlerAddSlice(w) ==
    /\ Alive
    /\ wpc[w] = "addSlice"
    /\ cache' = addSlice(cache, nonVisited[w])
    /\ LET tasks == DispatchedLinks(wlinks[w], nonVisited[w])
       IN IF tasks = <<>>
          THEN HandlerReturn(w)
          ELSE Worker(w, "enqRead", wtask[w], tasks, nonVisited[w], 1, <<>>, <<>>)
    /\ UNCHANGED <<confVars, schedVars, runVars, stopper, mainVars, visited,
                   result, output, histVars, clientVars>>

\* s.inputQueue = append(s.inputQueue, t): append is given s.inputQueue
HandlerEnqueueRead(w) ==
    /\ Alive
    /\ wpc[w] = "enqRead"
    /\ Worker(w, "enqWrite", wtask[w], wlinks[w], nonVisited[w], linkIdx[w],
              inputQueue, <<>>)
    /\ UNCHANGED <<confVars, schedVars, runVars, stopper, mainVars, crawlVars,
                   histVars, clientVars>>

\* what enqueue stores in s.inputQueue
enqueue(read, t) == Append(read, t)

\* ... and its result is stored in s.inputQueue; Dispatch's loop goes on
HandlerEnqueueWrite(w) ==
    /\ Alive
    /\ wpc[w] = "enqWrite"
    /\ inputQueue' = enqueue(enqRead[w], wlinks[w][linkIdx[w]])
    /\ dispatched' = [dispatched EXCEPT ![wlinks[w][linkIdx[w]]] = @ + 1]
    /\ IF linkIdx[w] < Len(wlinks[w])
       THEN Worker(w, "enqRead", wtask[w], wlinks[w], nonVisited[w],
                   linkIdx[w] + 1, <<>>, <<>>)
       ELSE HandlerReturn(w)
    /\ UNCHANGED <<confVars, quit, workerPool, WorkerState, tasksClosed,
                   runVars, stopper, mainVars, crawlVars, popped, handled,
                   fetched, sawQuiescence, clientVars>>

-----------------------------------------------------------------------------
(* Scheduler.run: the dispatch loop *)

\* if s.quit { return }; if len(s.inputQueue) <= 0 { continue }
\* (with an empty queue the loop spins: the state does not change)
RunCheck ==
    /\ Alive
    /\ rpc = "check"
    /\ quit \/ Len(inputQueue) > 0
    /\ rpc' = IF quit THEN "done" ELSE "dequeue"
    /\ UNCHANGED <<confVars, schedVars, workerVars, rt, rq, rworker, stopper,
                   mainVars, crawlVars, histVars, clientVars>>

\* dequeue: t := s.inputQueue[0]
DequeueHead ==
    /\ Alive
    /\ rpc = "dequeue"
    /\ rt' = Head(inputQueue)
    /\ rpc' = "resliceRead"
    /\ UNCHANGED <<confVars, schedVars, workerVars, rq, rworker, stopper,
                   mainVars, crawlVars, histVars, clientVars>>

\* dequeue: s.inputQueue = s.inputQueue[1:], the slice expression is
\* evaluated (enqueue does not take inputQueueLock)
DequeueResliceRead ==
    /\ Alive
    /\ rpc = "resliceRead"
    /\ rq' = inputQueue
    /\ rpc' = "resliceWrite"
    /\ UNCHANGED <<confVars, schedVars, workerVars, rt, rworker, stopper,
                   mainVars, crawlVars, histVars, clientVars>>

\* what dequeue stores in s.inputQueue
dequeue(read) == Tail(read)

\* ... and stored in s.inputQueue; dequeue returns t
DequeueResliceWrite ==
    /\ Alive
    /\ rpc = "resliceWrite"
    /\ inputQueue' = dequeue(rq)
    /\ popped' = [popped EXCEPT ![rt] = @ + 1]
    /\ rq' = <<>>
    /\ rpc' = "getWorker"
    /\ UNCHANGED <<confVars, quit, workerPool, WorkerState, tasksClosed,
                   workerVars, rt, rworker, stopper, mainVars, crawlVars,
                   dispatched, handled, fetched, sawQuiescence, clientVars>>

\* RunGetWorker that leaves the worker in the pool.
RunGetWorkerPeek ==
    /\ Alive
    /\ rpc = "getWorker"
    /\ workerPool # <<>>
    /\ rworker' = Head(workerPool)
    /\ rpc' = "send"
    /\ UNCHANGED <<confVars, schedVars, workerVars, rt, rq, stopper, mainVars,
                   crawlVars, histVars, clientVars>>

\* worker := <-s.workerPool
RunGetWorker ==
    /\ Alive
    /\ rpc = "getWorker"
    /\ workerPool # <<>>
    /\ rworker' = Head(workerPool)
    /\ workerPool' = Tail(workerPool)
    /\ rpc' = "send"
    /\ UNCHANGED <<confVars, inputQueue, quit, WorkerState, tasksClosed,
                   workerVars, rt, rq, stopper, mainVars, crawlVars, histVars,
                   clientVars>>

\* worker.cha.tasks <- t on a channel the worker has closed: the send
\* panics and the process dies
RunSendClosed ==
    /\ Alive
    /\ rpc = "send"
    /\ tasksClosed[rworker]
    /\ rpc' = "panic"
    /\ UNCHANGED <<confVars, schedVars, workerVars, rt, rq, rworker, stopper,
                   mainVars, crawlVars, histVars, clientVars>>

-----------------------------------------------------------------------------
(* Crawler.run: the orchestrator's loop, and Scheduler.Stop *)

\* case <-c.ticker.C: visitedSize := c.visited.size()
Tick ==
    /\ Alive
    /\ mpc = "loop"
    /\ visitedSize' = size(visited)
    /\ mpc' = "tickCache"
    /\ UNCHANGED <<confVars, schedVars, workerVars, runVars, stopper, menq,
                   cquit, signals, crawlVars, histVars, clientVars>>

\* if visitedSize >= cacheSize
Quiescent(vSize, cSize) == vSize >= cSize

\* cacheSize := c.cache.size(); if visitedSize >= cacheSize { ... }
TickCompare ==
    /\ Alive
    /\ mpc = "tickCache"
    /\ LET cacheSize == size(cache)
       IN IF Quiescent(visitedSize, cacheSize)
          THEN mpc' = "sendQuit" /\ sawQuiescence' = TRUE
          ELSE mpc' = "loop" /\ UNCHANGED sawQuiescence
    /\ visitedSize' = 0
    /\ UNCHANGED <<confVars, schedVars, workerVars, runVars, stopper, menq,
                   cquit, signals, crawlVars, dispatched, popped, handled,
                   fetched, clientVars>>

\* c.quit <- syscall.SIGQUIT (blocks while the channel is full)
SendQuit ==
    /\ Alive
    /\ mpc = "sendQuit"
    /\ Len(cquit) < QuitCap
    /\ cquit' = Append(cquit, "SIGQUIT")
    /\ mpc' = "loop"
    /\ UNCHANGED <<confVars, schedVars, workerVars, runVars, stopper, menq,
                   visitedSize, signals, crawlVars, histVars, clientVars>>

\* case rs := <-c.scheduler.WorkerState
RecvWorkerState ==
    /\ Alive
    /\ mpc = "loop"
    /\ WorkerState # <<>>
    /\ WorkerState' = Tail(WorkerState)
    /\ UNCHANGED <<confVars, inputQueue, quit, workerPool, tasksClosed,
                   workerVars, runVars, stopper, mainVars, crawlVars, histVars,
                   clientVars>>

\* case sig := <-c.quit: os.Exit unless it is the loop's own SIGQUIT,
\* else return (the deferred function runs next)
RecvQuit ==
    /\ Alive
    /\ mpc = "loop"
    /\ cquit # <<>>
    /\ cquit' = Tail(cquit)
    /\ mpc' = IF Head(cquit) # "SIGQUIT" THEN "exit" ELSE "defer"
    /\ UNCHANGED <<confVars, schedVars, workerVars, runVars, stopper, menq,
                   visitedSize, signals, crawlVars, histVars, clientVars>>

\* the signals registered by signal.Notify
ExternalSignals == {"SIGINT", "SIGTERM", "SIGQUIT"}

\* signal.Notify(c.quit, os.Interrupt, syscall.SIGTERM, syscall.SIGQUIT):
\* the runtime delivers an external signal without blocking; it is dropped
\* when c.quit is full
Signal ==
    /\ Alive
    /\ signals < MaxSignals
    /\ signals' = signals + 1
    /\ \E sig \in ExternalSignals :
          cquit' = IF Len(cquit) < QuitCap THEN Append(cquit, sig) ELSE cquit
    /\ UNCHANGED <<confVars, schedVars, workerVars, runVars, stopper, mpc,
                   menq, visitedSize, crawlVars, histVars, clientVars>>

\* c.scheduler.Stop(): s.quit = true and one goroutine per worker that
\* sends on the worker's quit channel
Stop ==
    /\ Alive
    /\ mpc = "defer"
    /\ quit' = TRUE
    /\ stopper' = [w \in Workers |-> "send"]
    /\ mpc' = "wait"
    /\ UNCHANGED <<confVars, inputQueue, workerPool, WorkerState, tasksClosed,
                   workerVars, runVars, menq, visitedSize, cquit, signals,
                   crawlVars, histVars, clientVars>>

\* StopWaitOver that waits for one sender only.
StopWaitOverAny == \E w \in Workers : stopper[w] = "done"

\* wg.Wait() is over when every sender has finished
StopWaitOver == \A w \in Workers : stopper[w] = "done"

\* StopReturn that does not wait for the senders.
StopReturnNoWait ==
    /\ Alive
    /\ mpc = "wait"
    /\ mpc' = "stopped"
    /\ UNCHANGED <<confVars, schedVars, workerVars, runVars, stopper, menq,
                   visitedSize, cquit, signals, crawlVars, histVars, clientVars>>

\* wg.Wait() returns, Stop returns
StopReturn ==
    /\ Alive
    /\ mpc = "wait"
    /\ StopWaitOver
    /\ mpc' = "stopped"
    /\ UNCHANGED <<confVars, schedVars, workerVars, runVars, stopper, menq,
                   visitedSize, cquit, signals, crawlVars, histVars, clientVars>>

\* c.ticker.Stop(); c.done(), which reads c.result and writes the output;
\* Crawl returns to main, which returns
Done ==
    /\ Alive
    /\ mpc = "stopped"
    /\ output' = [written |-> TRUE, records |-> result]
    /\ mpc' = "returned"
    /\ UNCHANGED <<confVars, schedVars, workerVars, runVars, stopper, menq,
                   visitedSize, cquit, signals, cache, visited, result, histVars, clientVars>>

-----------------------------------------------------------------------------
(* The crawl, without external signals and without the progress channel.   *)

Options == [MaxWorkers : 1 .. DefaultWorkers, Interactive : BOOLEAN]

Failing == {f \in SUBSET URLs : Cardinality(f) <= MaxFailures}

Init ==
    /\ \E o \in {p \in Options : ~p.Interactive}, f \in Failing :
          InitCrawl(o, ScenarioGraph, f)
    /\ handler = TRUE
    /\ NoCallers
    /\ NoParser

Next ==
    \/ Start
    \/ CrawlCacheAdd
    \/ CrawlEnqueueRead
    \/ CrawlEnqueueWrite
    \/ Tick
    \/ TickCompare
    \/ SendQuit
    \/ RecvQuit
    \/ Stop
    \/ StopReturn
    \/ Done
    \/ RunCheck
    \/ DequeueHead
    \/ DequeueResliceRead
    \/ DequeueResliceWrite
    \/ RunGetWorker
    \/ RunSendClosed
    \/ \E w \in Workers : WorkerPool(w)
    \/ \E w \in Workers : Handoff(w)
    \/ \E w \in Workers : WorkerQuit(w)
    \/ \E w \in Workers : WorkerClose(w)
    \/ \E w \in Workers : HandlerHas(w)
    \/ \E w \in Workers : HandlerFetch(w)
    \/ \E w \in Workers : HandlerAppendRead(w)
    \/ \E w \in Workers : HandlerAppendWrite(w)
    \/ \E w \in Workers : HandlerSnapshot(w)
    \/ \E w \in Workers : HandlerAddSlice(w)
    \/ \E w \in Workers : HandlerEnqueueRead(w)
    \/ \E w \in Workers : HandlerEnqueueWrite(w)

Spec == Init /\ [][Next]_vars

(* The crawl in interactive mode: the workers report on the progress       *)
(* channel, which the orchestrator's loop reads.                           *)

InitInteractive ==
    /\ \E o \in {p \in Options : p.Interactive} :
          InitCrawl(o, ScenarioGraph, {})
    /\ handler = TRUE
    /\ NoCallers
    /\ NoParser

NextInteractive ==
    \/ Next
    \/ \E w \in Workers : WorkerReport(w)
    \/ RecvWorkerState

InteractiveSpec == InitInteractive /\ [][NextInteractive]_vars

(* The crawl with external signals (SIGINT, SIGTERM, SIGQUIT) delivered to *)
(* the orchestrator's quit channel.                                        *)

NextSignal ==
    \/ Next
    \/ Signal

SignalSpec == Init /\ [][NextSignal]_vars

(* The scheduler started by a caller that may not have bound a handler     *)
(* (NewCrawler always binds one).                                          *)

InitStart ==
    /\ \E o \in {p \in Options : ~p.Interactive} :
          InitCrawl(o, ScenarioGraph, {})
    /\ handler \in BOOLEAN
    /\ NoCallers
    /\ NoParser

StartSpec == InitStart /\ [][Next]_vars

\* Every goroutine that can take a step eventually takes one: the Go
\* scheduler starves no runnable goroutine, the ticker keeps firing.
Fairness ==
    /\ WF_vars(Start) /\ WF_vars(CrawlCacheAdd)
    /\ WF_vars(CrawlEnqueueRead) /\ WF_vars(CrawlEnqueueWrite)
    /\ WF_vars(Tick) /\ WF_vars(TickCompare) /\ WF_vars(SendQuit)
    /\ WF_vars(RecvQuit) /\ WF_vars(Stop) /\ WF_vars(StopReturn)
    /\ WF_vars(Done)
    /\ WF_vars(RunCheck) /\ WF_vars(DequeueHead)
    /\ WF_vars(DequeueResliceRead) /\ WF_vars(DequeueResliceWrite)
    /\ WF_vars(RunGetWorker) /\ WF_vars(RunSendClosed)
    /\ \A w \in 0 .. (DefaultWorkers - 1) :
        /\ WF_vars(w \in Workers /\ WorkerPool(w))
        /\ WF_vars(w \in Workers /\ Handoff(w))
        /\ WF_vars(w \in Workers /\ WorkerQuit(w))
        /\ WF_vars(w \in Workers /\ WorkerClose(w))
        /\ WF_vars(w \in Workers /\ HandlerHas(w))
        /\ WF_vars(w \in Workers /\ HandlerFetch(w))
        /\ WF_vars(w \in Workers /\ HandlerAppendRead(w))
        /\ WF_vars(w \in Workers /\ HandlerAppendWrite(w))
        /\ WF_vars(w \in Workers /\ HandlerSnapshot(w))
        /\ WF_vars(w \in Workers /\ HandlerAddSlice(w))
        /\ WF_vars(w \in Workers /\ HandlerEnqueueRead(w))
        /\ WF_vars(w \in Workers /\ HandlerEnqueueWrite(w))

FairSpec == Spec /\ Fairness

-----------------------------------------------------------------------------
(* crawler/hash_set.go under concurrent callers: MaxClients goroutines     *)
(* each make one call on the visited set. A call takes hashSet.lock, works *)
(* on the map and releases the lock as it returns. A writer's access to    *)
(* the map is a read of the map followed by a store of the updated map:    *)
(* two writers inside the lock at once would lose an insert.               *)

Clients == 1 .. MaxClients

Elements == {"a", "x"}

SetOps ==
    [op : {"add", "has"}, arg : Elements]
        \cup {[op |-> "addSlice", arg |-> <<"a", "x">>]}

IsWrite(call) == call.op \in {"add", "addSlice"}

\* the elements a call inserts
Inserted(call) ==
    CASE call.op = "add" -> {call.arg}
      [] call.op = "addSlice" -> Range(call.arg)
      [] OTHER -> {}

InitSet ==
    /\ InitCrawl([MaxWorkers |-> 1, Interactive |-> FALSE], ScenarioGraph, {})
    /\ handler = TRUE
    /\ NoParser
    /\ hsLock = Unlocked
    /\ cpc = [c \in Clients |-> "idle"]
    /\ cop \in [Clients -> SetOps]
    /\ cmap = [c \in Clients |-> {}]
    /\ cret = [c \in Clients |-> "none"]
    /\ added = [c \in Clients |-> {}]
    /\ returned = {}

crawlIdle == <<confVars, schedVars, workerVars, runVars, stopper, mainVars,
               cache, result, output, histVars>>

\* the caller makes its call
SetCall(c) ==
    /\ cpc[c] = "idle"
    /\ cpc' = [cpc EXCEPT ![c] = "lock"]
    /\ added' = [added EXCEPT ![c] = returned]
    /\ UNCHANGED <<crawlIdle, visited, hsLock, cop, cmap, cret, returned>>

\* CanLock of a Lock that excludes nobody.
CanLockNoExclusion(l) == TRUE

\* s.lock.Lock() succeeds: no writer and no reader holds the lock
CanLock(l) == ~l.writer /\ l.readers = 0

\* s.lock.RLock() succeeds: no writer holds the lock
CanRLock(l) == ~l.writer

\* add, addSlice: s.lock.Lock()
SetLock(c) ==
    /\ cpc[c] = "lock"
    /\ IsWrite(cop[c])
    /\ CanLock(hsLock)
    /\ hsLock' = [hsLock EXCEPT !.writer = TRUE]
    /\ cpc' = [cpc EXCEPT ![c] = "read"]
    /\ UNCHANGED <<crawlIdle, visited, cop, cmap, cret, added, returned>>

\* has: s.lock.RLock()
SetRLock(c) ==
    /\ cpc[c] = "lock"
    /\ ~IsWrite(cop[c])
    /\ CanRLock(hsLock)
    /\ hsLock' = [hsLock EXCEPT !.readers = @ + 1]
    /\ cpc' = [cpc EXCEPT ![c] = "has"]
    /\ UNCHANGED <<crawlIdle, visited, cop, cmap, cret, added, returned>>

\* add, addSlice: the map is read (s.data == nil, _, ok := s.data[t])
SetRead(c) ==
    /\ cpc[c] = "read"
    /\ cmap' = [cmap EXCEPT ![c] = visited]
    /\ cpc' = [cpc EXCEPT ![c] = "store"]
    /\ UNCHANGED <<crawlIdle, visited, hsLock, cop, cret, added, returned>>

\* add, addSlice: the map is stored into (s.data[t] = true)
SetStore(c) ==
    /\ cpc[c] = "store"
    /\ visited' = IF cop[c].op = "add"
                  THEN add(cmap[c], cop[c].arg)
                  ELSE addSlice(cmap[c], cop[c].arg)
    /\ cmap' = [cmap EXCEPT ![c] = {}]
    /\ cpc' = [cpc EXCEPT ![c] = "unlock"]
    /\ UNCHANGED <<crawlIdle, hsLock, cop, cret, added, returned>>

\* has: _, ok := s.data[element]
SetHas(c) ==
    /\ cpc[c] = "has"
    /\ cret' = [cret EXCEPT ![c] = has(visited, cop[c].arg)]
    /\ cpc' = [cpc EXCEPT ![c] = "runlock"]
    /\ UNCHANGED <<crawlIdle, visited, hsLock, cop, cmap, added, returned>>

\* add, addSlice: the deferred s.lock.Unlock(), and the call returns
SetUnlock(c) ==
    /\ cpc[c] = "unlock"
    /\ hsLock' = [hsLock EXCEPT !.writer = FALSE]
    /\ returned' = returned \cup Inserted(cop[c])
    /\ cpc' = [cpc EXCEPT ![c] = "done"]
    /\ UNCHANGED <<crawlIdle, visited, cop, cmap, cret, added>>

\* has: the deferred s.lock.RUnlock(), and the call returns
SetRUnlock(c) ==
    /\ cpc[c] = "runlock"
    /\ hsLock' = [hsLock EXCEPT !.readers = @ - 1]
    /\ cpc' = [cpc EXCEPT ![c] = "done"]
    /\ UNCHANGED <<crawlIdle, visited, cop, cmap, cret, added, returned>>

SetNext ==
    \/ \E c \in Clients : SetCall(c)
    \/ \E c \in Clients : SetLock(c)
    \/ \E c \in Clients : SetRLock(c)
    \/ \E c \in Clients : SetRead(c)
    \/ \E c \in Clients : SetStore(c)
    \/ \E c \in Clients : SetHas(c)
    \/ \E c \in Clients : SetUnlock(c)
    \/ \E c \in Clients : SetRUnlock(c)

SetSpec == InitSet /\ [][SetNext]_vars

-----------------------------------------------------------------------------
(* parser: Parser.filterLinks, called by ParseLinks with the links of a     *)
(* page and the base URL of the page's address. A string is the sequence of *)
(* the pieces it is written with; no piece is the beginning of another, so  *)
(* one string is a prefix of another exactly when its pieces are.           *)

SchemeTokens == {"https://", "http://"}

HasPrefix(str, prefix) ==
    /\ Len(prefix) <= Len(str)
    /\ SubSeq(str, 1, Len(prefix)) = prefix

HasSuffix(str, suffix) ==
    /\ Len(suffix) <= Len(str)
    /\ SubSeq(str, Len(str) - Len(suffix) + 1, Len(str)) = suffix

\* strings.Contains
ContainsStr(str, substr) ==
    \E i \in 1 .. (Len(str) + 1) :
        /\ i + Len(substr) - 1 <= Len(str)
        /\ SubSeq(str, i, i + Len(substr) - 1) = substr

TrimSuffix(str, suffix) ==
    IF HasSuffix(str, suffix) THEN SubSeq(str, 1, Len(str) - Len(suffix)) ELSE str

\* position of the first c in str, Len(str) + 1 when there is none
IndexOf(str, c) ==
    IF \E i \in DOMAIN str : str[i] = c
    THEN CHOOSE i \in DOMAIN str :
            str[i] = c /\ \A j \in 1 .. (i - 1) : str[j] # c
    ELSE Len(str) + 1

\* position of the last c in str, 0 when there is none
LastIndexOf(str, c) ==
    IF \E i \in DOMAIN str : str[i] = c
    THEN CHOOSE i \in DOMAIN str :
            str[i] = c /\ \A j \in (i + 1) .. Len(str) : str[j] # c
    ELSE 0

\* url.Parse: the fragment is cut off; after a scheme comes the authority,
\* up to the first "/", whose part after the last "@" is the host; the
\* rest is the path. Without a scheme everything is path.
ParseUrl(rawUrl) ==
    LET noFragment == SubSeq(rawUrl, 1, IndexOf(rawUrl, "#") - 1)
        hasScheme  == noFragment # <<>> /\ noFragment[1] \in SchemeTokens
        rest       == IF hasScheme THEN Tail(noFragment) ELSE noFragment
        slash      == IndexOf(rest, "/")
        authority  == IF hasScheme THEN SubSeq(rest, 1, slash - 1) ELSE <<>>
        at         == LastIndexOf(authority, "@")
    IN [Scheme |-> IF hasScheme THEN noFragment[1] ELSE "",
        Host   |-> SubSeq(authority, at + 1, Len(authority)),
        Path   |-> IF hasScheme THEN SubSeq(rest, slash, Len(rest)) ELSE rest]

\* getUrl returns no error: the scheme is http or https, the host is not empty
getUrlOk(rawUrl) ==
    /\ ParseUrl(rawUrl).Scheme \in SchemeTokens
    /\ ParseUrl(rawUrl).Host # <<>>

\* getUrl's second result: "%s://%s" of scheme and host
getUrlBase(rawUrl) == <<ParseUrl(rawUrl).Scheme>> \o ParseUrl(rawUrl).Host

\* SanitiseUrl: "%s://%s%s" of scheme, host and the path without a final "/"
SanitiseUrl(rawUrl) ==
    <<ParseUrl(rawUrl).Scheme>> \o ParseUrl(rawUrl).Host
        \o TrimSuffix(ParseUrl(rawUrl).Path, <<"/">>)

\* the link is dropped by IgnoreFragments, IgnoredExtensions or IgnoredPaths
Ignored(o, l) ==
    \/ o.IgnoreFragments /\ ContainsStr(l, <<"#">>)
    \/ \E i \in DOMAIN o.IgnoredExtensions : HasSuffix(l, o.IgnoredExtensions[i])
    \/ \E i \in DOMAIN o.IgnoredPaths : ContainsStr(l, o.IgnoredPaths[i])

\* if strings.HasPrefix(l, "/") { l = baseUrl + l }
Resolve(l, base) == IF HasPrefix(l, <<"/">>) THEN base \o l ELSE l

\* the same-subdomain test: strings.HasPrefix(l, baseUrl)
SameSubdomain(l, base) == HasPrefix(l, base)

\* one iteration of filterLinks' loop: what it appends to filteredLinks
filterLink(o, l, base) ==
    IF Ignored(o, l) THEN <<>>
    ELSE IF o.SameSubdomain /\ ~SameSubdomain(Resolve(l, base), base) THEN <<>>
    ELSE IF ~getUrlOk(Resolve(l, base)) THEN <<>>
    ELSE <<SanitiseUrl(Resolve(l, base))>>

\* distinctLinks: the keys of the map, in the order its iteration yields
distinctLinks(q) ==
    {d \in [1 .. Cardinality(Range(q)) -> Range(q)] : Range(d) = Range(q)}

\* the links found in pages
LinkSchemes == {<<"https://">>, <<"http://">>}
LinkAuthorities ==
    {<<"monzo.com">>, <<"monzo.com", ".evil.org">>,
     <<"monzo.com", "@", "evil.org">>, <<"evil.org">>}
LinkPaths ==
    {<<>>, <<"/", "about">>, <<"/", "about", "/">>, <<"/", "about", "#">>,
     <<"/", "about", ".pdf">>}
RawLinks ==
    LinkPaths \cup {s \o a \o p : s \in LinkSchemes, a \in LinkAuthorities,
                                   p \in LinkPaths}

\* the addresses of the pages
Inputs == {<<"https://", "monzo.com">>, <<"http://", "monzo.com">>}

ParserOptionsSet ==
    [SameSubdomain : BOOLEAN, Distinct : BOOLEAN, IgnoreFragments : BOOLEAN,
     IgnoredExtensions : {<<>>, << <<".pdf">> >>},
     IgnoredPaths : {<<>>, << <<"/", "about", "/">> >>}]

InitFilter ==
    /\ InitCrawl([MaxWorkers |-> 1, Interactive |-> FALSE], ScenarioGraph, {})
    /\ handler = TRUE
    /\ NoCallers
    /\ popts \in ParserOptionsSet
    /\ \E input \in Inputs : baseUrl = getUrlBase(input)
    /\ \E n \in 0 .. MaxLinks : rawLinks \in [1 .. n -> RawLinks]
    /\ filteredLinks = <<>>
    /\ pidx = 1
    /\ ppc = "loop"

crawlUntouched == <<opts, handler, graph, failing, schedVars, workerVars,
                    runVars, stopper, mainVars, crawlVars, histVars, clientVars>>

\* for _, l := range links { ... }: one iteration
FilterStep ==
    /\ ppc = "loop"
    /\ pidx <= Len(rawLinks)
    /\ filteredLinks' = filteredLinks \o filterLink(popts, rawLinks[pidx], baseUrl)
    /\ pidx' = pidx + 1
    /\ UNCHANGED <<crawlUntouched, popts, baseUrl, rawLinks, ppc>>

\* if p.opts.Distinct { filteredLinks = distinctLinks(filteredLinks) };
\* return filteredLinks
FilterReturn ==
    /\ ppc = "loop"
    /\ pidx > Len(rawLinks)
    /\ filteredLinks' \in IF popts.Distinct THEN distinctLinks(filteredLinks)
                                             ELSE {filteredLinks}
    /\ ppc' = "done"
    /\ UNCHANGED <<crawlUntouched, popts, baseUrl, rawLinks, pidx>>

FilterNext ==
    \/ FilterStep
    \/ FilterReturn

FilterSpec == InitFilter /\ [][FilterNext]_vars

-----------------------------------------------------------------------------
(* Properties of the scheduler's queue *)

\* number of times task t occurs in sequence q
Count(q, t) == Cardinality({i \in DOMAIN q : q[i] = t})

\* no enqueue and no dequeue call is between its first read and its return
NoQueueCallInProgress ==
    /\ mpc \notin {"enqWrite"}
    /\ rpc \notin {"dequeue", "resliceRead", "resliceWrite"}
    /\ \A w \in Workers : wpc[w] # "enqWrite"

\* the dispatch loop holds no task and every Dispatch call has returned
SchedulerIdle ==
    /\ NoQueueCallInProgress
    /\ mpc \notin {"Crawl", "cacheAdd", "enqRead"}
    /\ rpc = "check"
    /\ \A w \in Workers : wpc[w] # "enqRead"

\* C1: while the scheduler is running, every dispatched task is handed to a
\* worker exactly once per dispatch: no task has been handled more often
\* than it was dispatched, and when the queue is empty and the dispatch
\* loop holds nothing, every dispatch has been handed to a worker.
C1_EachDispatchHandledOnce ==
    /\ \A t \in URLs : handled[t] <= dispatched[t]
    /\ (~quit /\ SchedulerIdle /\ inputQueue = <<>>)
          => \A t \in URLs : handled[t] = dispatched[t]

\* C2: after any interleaving of enqueue and dequeue calls that have all
\* returned, the tasks in the Input Queue together with the tasks popped
\* are exactly the tasks dispatched, as multisets.
C2_QueueKeepsDispatchedTasks ==
    NoQueueCallInProgress
        => \A t \in URLs : Count(inputQueue, t) + popped[t] = dispatched[t]

-----------------------------------------------------------------------------
(* Properties of the crawl *)

\* C3: with every fetch returning, the crawl terminates; its first step:
\* the periodic check eventually observes Completed.Size() >=
\* Discovered.Size() (the loop exits and Stop is called only after that).
C3_CrawlObservesQuiescence == <>sawQuiescence

\* a handler invocation that has passed the duplicate guard and may still
\* insert links into the Discovered Set
MayStillDiscover(w) ==
    wpc[w] \in {"fetch", "appendRead", "appendWrite", "snapshot", "addSlice"}

\* C4: when the periodic check declares quiescence, every discovered task
\* has finished and no handler invocation is still going to add links to
\* the Discovered Set.
C4_QuiescenceIsSound ==
    mpc = "sendQuit"
        => /\ cache \subseteq visited
           /\ \A w \in Workers : ~MayStillDiscover(w)

\* number of Result Records for url
Records(url) == Cardinality({i \in DOMAIN result : result[i].URL = url})

\* C5: for a -> {x, y}, x -> {}, y -> {x} with all fetches succeeding, a
\* crawl that has ended has Discovered.Size() = 3, Completed.Size() = 3,
\* one Result Record for a and for y, and one or two for x.
C5_ScenarioResult ==
    (mpc = "returned" /\ graph = ScenarioGraph /\ failing = {})
        => /\ size(cache) = 3
           /\ size(visited) = 3
           /\ Records("a") = 1
           /\ Records("y") = 1
           /\ Records("x") \in {1, 2}

\* a handler invocation has fetched a URL whose fetch fails
FetchFailed == \E u \in failing : fetched[u] > 0

\* C6: when the fetch for a task fails, the handler inserts the task into
\* the Completed Set, appends no Result Record, inserts nothing into the
\* Discovered Set and dispatches nothing, and the crawl still reaches
\* quiescence afterwards.
C6_FailedFetch ==
    /\ [][\A w \in Workers :
            (wpc[w] = "fetch" /\ wtask[w] \in failing /\ wpc'[w] # "fetch")
                => /\ wtask[w] \in visited'
                   /\ result' = result
                   /\ cache' = cache
                   /\ inputQueue' = inputQueue
                   /\ wpc'[w] = "pool"]_vars
    /\ (FetchFailed ~> sawQuiescence)

-----------------------------------------------------------------------------
(* Properties of Scheduler.Stop *)

\* Stop has returned to the orchestrator
StopReturned == mpc \in {"stopped", "returned"}

\* worker w runs the handler (or is about to: it holds a task)
InHandler(w) ==
    wpc[w] \in {"report", "has", "fetch", "appendRead", "appendWrite",
                "snapshot", "addSlice", "enqRead", "enqWrite"}

\* C7 as stated: when Stop returns, every worker has received its shutdown
\* signal and has terminated, and no handler invocation is in progress.
C7_StopTerminatesWorkers ==
    StopReturned
        => \A w \in Workers : stopper[w] = "done" /\ wpc[w] = "done"

\* C7 amended: when Stop returns, and from then on, every worker has
\* received its shutdown signal and is past its loop (it has terminated, or
\* has only its close(w.cha.tasks) and return left), so no handler
\* invocation is in progress or begins afterwards.
C7_StopAcknowledged ==
    StopReturned
        => \A w \in Workers :
              /\ stopper[w] = "done"
              /\ wpc[w] \in {"quit", "done"}
              /\ ~InHandler(w)

\* Stop has returned while one worker has terminated and another has
\* received its signal and not yet closed its task channel
C7_Witness ==
    /\ mpc = "stopped"
    /\ \E w \in Workers : wpc[w] = "done"
    /\ \E w \in Workers : wpc[w] = "quit"
    /\ \E t \in URLs : fetched[t] > 0

\* C8 as stated: after Stop has been called, the dispatch loop hands no
\* further task to any worker.
C8_NoHandoffAfterStopCalled == [][quit => handled' = handled]_vars

\* C8 amended: after Stop has returned, no task is handed to any worker and
\* no handler invocation fetches anything: the tasks still in the Input
\* Queue are never handled.
C8_NoHandoffAfterStopReturned ==
    [][StopReturned => (handled' = handled /\ fetched' = fetched
                        /\ visited' = visited)]_vars

\* Stop has returned with tasks left in the Input Queue, the dispatch loop
\* not having observed s.quit
C8_Witness ==
    /\ mpc = "stopped"
    /\ inputQueue # <<>>
    /\ rpc \notin {"done", "panic"}

\* C9: with reportState enabled, no worker is blocked for ever in its
\* w.cha.state <- tuple{w.id, task}: here the channel is full and the
\* orchestrator has left the loop that reads it, so nothing receives from
\* it again, the worker never runs its handler and Stop never returns.
C9_ReportNeverBlocksForever ==
    \A w \in Workers :
        ~(/\ wpc[w] = "report"
          /\ Len(WorkerState) >= opts.MaxWorkers
          /\ mpc \in {"defer", "wait"})

-----------------------------------------------------------------------------
(* Properties of the two sets and of the worker pool *)

\* C11: in every reachable state the Completed Set is a subset of the
\* Discovered Set, hence Completed.Size() <= Discovered.Size(), and both
\* sets only grow.
C11_CompletedWithinDiscovered ==
    /\ [](visited \subseteq cache /\ size(visited) <= size(cache))
    /\ [][visited \subseteq visited' /\ cache \subseteq cache']_vars

\* every URL of the site has been discovered and completed, the last of
\* them by a handler invocation that found nothing new
C11_Witness ==
    /\ visited = URLs
    /\ cache = URLs
    /\ \E t \in URLs : fetched[t] > 1

\* the workers that hold a task
Busy == {w \in Workers : InHandler(w)}

\* the queue entry the dispatch loop has popped and not yet handed over
Held(t) == IF rt = t /\ rpc \in {"getWorker", "send", "panic"} THEN 1 ELSE 0

\* C12: at most MaxWorkers handler invocations are in progress; a worker
\* that runs a handler invocation is not in the Availability Pool and is not
\* the worker the dispatch loop is about to hand a task to, so it runs one
\* invocation at a time; and every queue entry popped by the dispatch loop
\* was handed to exactly one worker or is still held by the loop.
C12_OneHandlerPerWorker ==
    /\ Cardinality(Busy) <= opts.MaxWorkers
    /\ \A w \in Busy : ~Contains(workerPool, w)
    /\ \A t \in URLs : popped[t] = handled[t] + Held(t)

\* MaxWorkers (two) handler invocations are in progress at once
C12_Witness ==
    /\ opts.MaxWorkers = DefaultWorkers
    /\ Cardinality(Busy) = opts.MaxWorkers
    /\ \A w \in Workers : wpc[w] = "fetch"

\* C13: each worker identity appears in the Availability Pool at most once;
\* a worker inserts itself only when it is not in the pool (it is new, or
\* the dispatch loop removed it and it has finished the task handed to it).
C13_PoolHoldsWorkerOnce ==
    /\ [](\A w \in Workers : Count(workerPool, w) <= 1)
    /\ [][\A w \in Workers :
            Count(workerPool', w) > Count(workerPool, w)
                => (wpc[w] = "pool" /\ ~Contains(workerPool, w))]_vars

\* a worker is back in the pool after the task it was handed, next to the
\* other worker
C13_Witness ==
    /\ Len(workerPool) = DefaultWorkers
    /\ \E t \in URLs : fetched[t] > 0

DiscoveredOnce ==
    {Seed} \cup UNION {Range(graph[u]) : u \in visited \ failing}

\* C16: when a URL is handled by two racing handler invocations, it has no
\* more Result Records than handler invocations that fetched it, and the
\* two sets are what single invocations leave: Completed holds exactly the
\* URLs fetched, and once no invocation is between its fetch and its
\* insert, Discovered holds exactly the seed and the links of the
\* completed URLs.
C16_RacingHandlersIdempotent ==
    /\ \A u \in URLs : Records(u) <= fetched[u]
    /\ visited = {u \in URLs : fetched[u] > 0}
    /\ (mpc \notin {"Crawl", "cacheAdd"} /\ \A w \in Workers : ~MayStillDiscover(w))
          => cache = DiscoveredOnce

\* two invocations raced on x, both fetched it and both have returned
C16_Witness ==
    /\ fetched["x"] = 2
    /\ Records("x") = 2
    /\ \A w \in Workers : ~InHandler(w)

\* C20: on a successful fetch the handler dispatches exactly the links that
\* were not in its Completed-Set snapshot, the links it inserts into the
\* Discovered Set: while Dispatch ranges over its argument, the argument
\* is nonVisitedLinks.
C20_DispatchesNonVisitedOnly ==
    \A w \in Workers :
        wpc[w] \in {"enqRead", "enqWrite"} => wlinks[w] = nonVisited[w]

\* the sum of f over S
RECURSIVE Sum(_, _)
Sum(f, S) ==
    IF S = {} THEN 0
    ELSE LET u == CHOOSE u \in S : TRUE IN f[u] + Sum(f, S \ {u})

\* handler invocations that fetched successfully and have stored their
\* append to c.result
Appended ==
    Sum(fetched, URLs \ failing)
        - Cardinality({w \in Workers : wpc[w] \in {"appendRead", "appendWrite"}})

\* C21: concurrent handler invocations that each append a Result Record
\* lose no record: the number of Result Records equals the number of
\* handler invocations that fetched successfully and performed their append.
C21_NoResultRecordLost == Len(result) = Appended

\* C22: the final output is produced only after Scheduler.Stop has
\* returned: when Crawler.done reads the Result Records no handler
\* invocation is running, and the record list does not change from then
\* on, so the output is the final record list.
C22_OutputAfterStop ==
    /\ [](output.written
            => /\ \A w \in Workers : stopper[w] = "done" /\ ~InHandler(w)
               /\ output.records = result)
    /\ [][output'.written /\ ~output.written => mpc = "stopped"]_vars
    /\ [][StopReturned => result' = result]_vars

\* the output was written with the records of a crawl that handled tasks
C22_Witness ==
    /\ output.written
    /\ Len(output.records) > 1

\* worker w has observed the shutdown signal
Observed(w) == wpc[w] \in {"quit", "done"}

\* C23: shutdown is cooperative. A worker observes the shutdown signal only
\* in its select, never inside a handler invocation; once it has observed
\* it, it closes its task channel, exits and never runs a handler again;
\* and a worker that is running a handler when Stop is called finishes
\* that invocation.
C23_CooperativeShutdown ==
    /\ [][\A w \in Workers :
            /\ (Observed(w)' /\ ~Observed(w)) => wpc[w] = "select"
            /\ Observed(w) => Observed(w)'
            /\ wpc[w] = "done" => tasksClosed[w]]_vars
    /\ \A w \in 0 .. (DefaultWorkers - 1) :
          (w \in Workers /\ quit /\ InHandler(w))
              ~> (w \in Workers /\ ~InHandler(w))

\* C24: the dispatch loop never sends a task on a task channel that its
\* worker has closed: the send-on-closed-channel panic is not reachable.
C24_NoSendOnClosedChannel == rpc # "panic"

\* the tasks the scheduler holds: in the queue, in a copy of the queue
\* that an enqueue or dequeue in progress is going to store, or popped and
\* not yet handed over
Queued ==
    Range(inputQueue) \cup Range(rq) \cup Range(menq)
        \cup UNION {Range(enqRead[w]) : w \in Workers}
        \cup (IF rt = NoTask THEN {} ELSE {rt})

\* C25: every task in the Input Queue, and every task being handled by a
\* worker, is a member of the Discovered Set.
C25_TasksAreDiscovered ==
    /\ Queued \subseteq cache
    /\ \A w \in Workers : wtask[w] # NoTask => wtask[w] \in cache

\* y is queued and x is being handled, x having been dispatched a second
\* time as a link that was already completed
C25_Witness ==
    /\ dispatched["x"] = 2
    /\ \E w \in Workers : wtask[w] = "x" /\ "x" \in visited
    /\ inputQueue # <<>>

-----------------------------------------------------------------------------
(* Properties of the parser *)

\* C19: with SameSubdomain enabled, every link filterLinks returns has the
\* scheme and the host of baseUrl: a link to any other host is dropped.
C19_SameSubdomainOnly ==
    (ppc = "done" /\ popts.SameSubdomain)
        => \A i \in DOMAIN filteredLinks :
              /\ ParseUrl(filteredLinks[i]).Scheme = ParseUrl(baseUrl).Scheme
              /\ ParseUrl(filteredLinks[i]).Host = ParseUrl(baseUrl).Host

-----------------------------------------------------------------------------
(* Properties of the orchestrator's shutdown *)

\* the orchestrator is on the graceful path: Scheduler.Stop, ticker stop,
\* final output
Graceful == mpc \in {"defer", "wait", "stopped", "returned"}

\* C17: the graceful shutdown path is taken only for the orchestrator's own
\* done signal, that is only after the periodic check has observed
\* Completed.Size() >= Discovered.Size(); an external signal never leads
\* to it.
C17_GracefulOnlyAfterQuiescence == Graceful => sawQuiescence

\* C18: the loop never blocks for ever while sending its done signal: once
\* the periodic check has observed quiescence and the loop is about to send
\* on c.quit, the loop eventually receives the signal and enters the
\* graceful path, also when a further tick fires first.
C18_DoneSignalDelivered == (mpc = "sendQuit") ~> Graceful

-----------------------------------------------------------------------------
(* Properties of Scheduler.Start *)

\* C15: Start called before a handler is bound fails fatally: it raises the
\* missing-handler error (the process dies) and launches neither a worker
\* nor the dispatch loop.
C15_StartNeedsHandler ==
    /\ [](~handler => /\ mpc \in {"Crawl", "panic"}
                      /\ rpc = "new"
                      /\ \A w \in Workers : wpc[w] = "new")
    /\ [][(~handler /\ mpc = "Crawl") => mpc' = "panic"]_vars

\* Start was called without a handler and has panicked
C15_Witness == ~handler /\ mpc = "panic"

-----------------------------------------------------------------------------
(* Properties of the hash set *)

=============================================================================
